---- MODULE Spec2Model ----
(***************************************************************************)
(* Model of the clustering engine of Leo-GG/Clustering: distance            *)
(* normalisation, link generation, the four link-driven agglomerative       *)
(* policies, SPICKER partitioning and k-medoid clustering.                  *)
(*                                                                          *)
(* Distances, raw scores and the cutoff are floats in the program; they are *)
(* modelled as integers in one fixed-point unit.  C++ vectors are 0-based:  *)
(* the element v[i] of a vector is the element i+1 of the sequence.         *)
(***************************************************************************)
EXTENDS Integers, Sequences, FiniteSets, TLC

VARIABLES
    argv,           \* command line: the values given with -h, -s, -m and -d
    hMenu,          \* help flag
    measureType,    \* input read as distances (0) or similarities (1)
    status,         \* value returned by readParameters
    inpFile,        \* the scores of the input file, one per line
    rawScores,      \* raw scores, row-major: rawScores[i * N + j]
    totalNodes,     \* number of elements (main: totalNodes)
    normScores,     \* normalized distance matrix [i][j], i, j in 0..N-1
    cutoff,         \* distance cutoff; the k of the k-medoid policy
    clusterAlg,     \* selected clustering policy: the integer selector in the
                    \* front end, the policy's name in the clustering functions
    nodeList,       \* nodeList[i] = clusterId_ of Node i (id_ is i itself)
    clusterList,    \* master list of Cluster objects
    linkList,       \* priority queue of Links
    nextLink,       \* local nextLink of the link-driven loops
    totalClusters,  \* counter used to assign cluster ids
    tempMatrix,     \* SPICKER: working copy of the matrix
    orphans,        \* SPICKER: number of unclustered elements
    nextCluster,    \* SPICKER: id of the next generated cluster
    maxRow,         \* SPICKER: row selected by the last row scan
    means,          \* k-medoid: current medoids (node ids), one per cluster
    convergence,    \* k-medoid: flag set by the last update step
    pc              \* position in the selected policy

vars == <<argv, hMenu, measureType, status, inpFile, rawScores, totalNodes,
          normScores, cutoff, clusterAlg, nodeList, clusterList, linkList,
          nextLink, totalClusters, tempMatrix, orphans, nextCluster, maxRow,
          means, convergence, pc>>

(***************************************************************************)
(* Bounds of the model                                                      *)
(***************************************************************************)
MaxNodes == 3
MaxDist == 2
MaxClusterList == 8

Nodes(n) == 0 .. (n - 1)

NoLink == [A |-> -1, B |-> -1, distance |-> -1]
NoNode == -1

LinkPolicies == {"HIERARCHICAL", "HIERARCHICAL_CUTOFF", "STRICT", "UPGMA"}
Policies == LinkPolicies \cup {"SPICKER", "KMEANS"}

(***************************************************************************)
(* Sequence helpers (std::vector)                                           *)
(***************************************************************************)
At(v, i) == v[i + 1]

Range(v) == {v[x] : x \in 1 .. Len(v)}

RECURSIVE SumSeq(_)
SumSeq(v) == IF v = <<>> THEN 0 ELSE Head(v) + SumSeq(Tail(v))

RECURSIVE MaxSeq(_, _)
\* running maximum:  m = d > m ? d : m  over the values of v
MaxSeq(v, m) ==
    IF v = <<>> THEN m
    ELSE MaxSeq(Tail(v), IF Head(v) > m THEN Head(v) ELSE m)

\* the values f(a, b) for a in va (outer loop), b in vb (inner loop), in loop order
RECURSIVE PairValues(_, _, _)
PairValues(va, vb, m) ==
    IF va = <<>> THEN <<>>
    ELSE [x \in 1 .. Len(vb) |-> m[Head(va)][vb[x]]] \o PairValues(Tail(va), vb, m)

(***************************************************************************)
(* Cluster class                                                            *)
(***************************************************************************)
\* Cluster::Cluster: centroid_ = members_[0] reads past an empty vector when
\* members is empty; the field then holds no node.
Cluster(id, members, maxDistance) ==
    [id          |-> id,
     members     |-> members,
     maxDistance |-> maxDistance,
     centroid    |-> IF members = <<>> THEN NoNode ELSE members[1],
     radius      |-> 0,
     active      |-> TRUE]

\* variant: the flag is left as it is
setStatus_Kept(c) == c

setStatus(c) == [c EXCEPT !.active = ~ @]

setMaxDistance(c, maxDistance) == [c EXCEPT !.maxDistance = maxDistance]

calcMaxDistance(c, scores) ==
    [c EXCEPT !.maxDistance = MaxSeq(PairValues(c.members, c.members, scores), 0)]

\* the loop of Cluster::calcCentroid from member i on.  At i == 0 the row
\* maximum goes to minDistanceSum and radius_ only; centroid_ is written when
\* a later member has a strictly smaller row maximum
RECURSIVE CentroidScan(_, _, _, _, _, _)
CentroidScan(i, members, scores, minDistanceSum, centroid, radius) ==
    IF i >= Len(members) THEN [centroid |-> centroid, radius |-> radius]
    ELSE LET currentRadius ==
                 MaxSeq([j \in 1 .. Len(members) |->
                            scores[At(members, i)][members[j]]], 0)
             first == [m |-> IF i = 0 THEN currentRadius ELSE minDistanceSum,
                       r |-> IF i = 0 THEN currentRadius ELSE radius]
         IN  IF currentRadius < first.m
             THEN CentroidScan(i + 1, members, scores, currentRadius,
                               At(members, i), currentRadius)
             ELSE CentroidScan(i + 1, members, scores, first.m, centroid, first.r)

calcCentroid(c, scores) ==
    LET res == CentroidScan(0, c.members, scores, 0, c.centroid, c.radius)
    IN  [c EXCEPT !.centroid = res.centroid, !.radius = res.radius]

(***************************************************************************)
(* initNodesAndClusters, initScores, initLinks                              *)
(***************************************************************************)
initNodes(n) == [i \in Nodes(n) |-> i]

initClusters(n) == [x \in 1 .. n |-> Cluster(x - 1, <<x - 1>>, 0)]

\* variant: the diagonal is not forced to 0
normScore_DiagonalKept(i, j, a, b) ==
    IF a = 0 /\ b = 0 THEN 0
    ELSE IF a = 0 \/ b = 0 THEN (a + b) \div 2
    ELSE (2 * (a * b)) \div (a + b)

\* variant: a zero on one side gives 0, the product of the harmonic mean
normScore_ZeroSide(i, j, a, b) ==
    IF i = j \/ a = 0 \/ b = 0 THEN 0 ELSE (2 * (a * b)) \div (a + b)

\* variant: the factor 2 of the harmonic mean is missing
normScore_HalfHarmonic(i, j, a, b) ==
    LET score == IF a = 0 /\ b = 0 THEN 0
                 ELSE IF a = 0 \/ b = 0 THEN (a + b) \div 2
                 ELSE (a * b) \div (a + b)
    IN  IF i = j THEN 0 ELSE score

\* one entry of the normalized matrix from the two reciprocal raw scores
normScore(i, j, a, b) ==
    LET score == IF a = 0 /\ b = 0 THEN 0
                 ELSE IF a = 0 \/ b = 0 THEN (a + b) \div 2
                 ELSE (2 * (a * b)) \div (a + b)
    IN  IF i = j THEN 0 ELSE score

initScores(n, raw) ==
    [i \in Nodes(n) |->
        [j \in Nodes(n) |-> normScore(i, j, raw[i * n + j], raw[j * n + i])]]

Link(A, B, distance) == [A |-> A, B |-> B, distance |-> distance]

\* the pairs (i, j) of the two nested loops: i < n-1, i+1 <= j < n
LinkPairs(n) == {p \in (0 .. (n - 2)) \X (0 .. (n - 1)) : p[2] >= p[1] + 1}

initLinks(n, scores) == {Link(p[1], p[2], scores[p[1]][p[2]]) : p \in LinkPairs(n)}

(***************************************************************************)
(* priority_queue<Link, vector<Link>, LinkComparator>                       *)
(***************************************************************************)
\* variant: the comparison is turned round (largest distance first)
LinkComparator_Reversed(linkA, linkB) == linkA.distance <= linkB.distance

LinkComparator(linkA, linkB) == linkA.distance >= linkB.distance

\* top(): a link that no other link of the queue is ordered after; links of
\* equal distance may leave the heap in any order
Top(q) == {l \in q : \A m \in q \ {l} : LinkComparator(m, l)}

(***************************************************************************)
(* mergeClusters                                                            *)
(***************************************************************************)
\* variant: the members of B are listed first
mergeClusters_BFirst(A, B, next, maxDistance) ==
    Cluster(next, B.members \o A.members, maxDistance)

\* the new Cluster C
mergeClusters(A, B, next, maxDistance) ==
    Cluster(next, A.members \o B.members, maxDistance)

\* variant: only the members of A are given the new cluster id
mergeSetCluster_OnlyA(nl, A, B, next) ==
    [i \in DOMAIN nl |-> IF i \in Range(A.members) THEN next ELSE nl[i]]

\* node->setCluster(nextCluster) for the members of A and of B
mergeSetCluster(nl, A, B, next) ==
    [i \in DOMAIN nl |->
        IF i \in Range(A.members) \cup Range(B.members) THEN next ELSE nl[i]]

\* the call site: clusterList[a], clusterList[b] merged, totalClusters++,
\* clusterList.push_back(clusterC)
Merge(cl, nl, tc, l) ==
    LET a == nl[l.A]
        b == nl[l.B]
        C == mergeClusters(At(cl, a), At(cl, b), tc, l.distance)
    IN  [cl |-> Append([cl EXCEPT ![a + 1] = setStatus(@), ![b + 1] = setStatus(@)], C),
         nl |-> mergeSetCluster(nl, At(cl, a), At(cl, b), tc),
         tc |-> tc + 1]

\* clusterList[nodeA->getCluster()]->setMaxDistance(nextLink.getDistance())
RecordDiameter(cl, nl, tc, l) ==
    [cl |-> [cl EXCEPT ![nl[l.A] + 1] = setMaxDistance(@, l.distance)],
     nl |-> nl,
     tc |-> tc]

Skip(cl, nl, tc) == [cl |-> cl, nl |-> nl, tc |-> tc]

(***************************************************************************)
(* Loop bodies of the link-driven policies                                  *)
(***************************************************************************)
HierarchicalBody(cl, nl, tc, l) ==
    IF nl[l.A] # nl[l.B] THEN Merge(cl, nl, tc, l) ELSE Skip(cl, nl, tc)

\* variant: a link at the cutoff is used too
HierarchicalCutoffBody_AtCutoff(cl, nl, tc, l, cut) ==
    IF l.distance <= cut
    THEN IF nl[l.A] # nl[l.B] THEN Merge(cl, nl, tc, l)
         ELSE RecordDiameter(cl, nl, tc, l)
    ELSE IF nl[l.A] = nl[l.B] THEN RecordDiameter(cl, nl, tc, l)
         ELSE Skip(cl, nl, tc)

HierarchicalCutoffBody(cl, nl, tc, l, cut) ==
    IF l.distance < cut
    THEN IF nl[l.A] # nl[l.B] THEN Merge(cl, nl, tc, l)
         ELSE RecordDiameter(cl, nl, tc, l)
    ELSE IF nl[l.A] = nl[l.B] THEN RecordDiameter(cl, nl, tc, l)
         ELSE Skip(cl, nl, tc)

\* variant: the comparison is inverted, a pair below the cutoff blocks the merge
StrictPairWise_Inverted(nodesA, nodesB, scores, cut) ==
    \A x \in 1 .. Len(nodesA) : \A y \in 1 .. Len(nodesB) :
        ~ (scores[nodesA[x]][nodesB[y]] < cut)

\* variant: a pair at the cutoff does not block the merge
StrictPairWise_AtCutoff(nodesA, nodesB, scores, cut) ==
    \A x \in 1 .. Len(nodesA) : \A y \in 1 .. Len(nodesB) :
        ~ (scores[nodesA[x]][nodesB[y]] > cut)

\* pairWise of doStrictHierarchicalCutoff: no pair of nodesA x nodesB at or
\* above the cutoff
StrictPairWise(nodesA, nodesB, scores, cut) ==
    \A x \in 1 .. Len(nodesA) : \A y \in 1 .. Len(nodesB) :
        ~ (scores[nodesA[x]][nodesB[y]] >= cut)

StrictBody(cl, nl, tc, l, cut, scores) ==
    IF l.distance < cut
    THEN IF StrictPairWise(At(cl, nl[l.A]).members, At(cl, nl[l.B]).members, scores, cut)
         THEN IF nl[l.A] # nl[l.B] THEN Merge(cl, nl, tc, l)
              ELSE RecordDiameter(cl, nl, tc, l)
         ELSE Skip(cl, nl, tc)
    ELSE IF nl[l.A] = nl[l.B] THEN RecordDiameter(cl, nl, tc, l)
         ELSE Skip(cl, nl, tc)

\* variant: a mean at the cutoff is accepted
UPGMAPairWise_AtCutoff(nodesA, nodesB, scores, cut) ==
    SumSeq(PairValues(nodesA, nodesB, scores)) <= cut * (Len(nodesA) * Len(nodesB))

\* pairWise of doUPGMA: avDist = dSum / (|nodesA| * |nodesB|) < cutoff; the
\* quotient is compared exactly, dSum < cutoff * (|nodesA| * |nodesB|)
UPGMAPairWise(nodesA, nodesB, scores, cut) ==
    LET dSum == SumSeq(PairValues(nodesA, nodesB, scores))
    IN  dSum < cut * (Len(nodesA) * Len(nodesB))

UPGMABody(cl, nl, tc, l, cut, scores) ==
    IF l.distance < cut
    THEN IF UPGMAPairWise(At(cl, nl[l.A]).members, At(cl, nl[l.B]).members, scores, cut)
         THEN IF nl[l.A] # nl[l.B] THEN Merge(cl, nl, tc, l)
              ELSE RecordDiameter(cl, nl, tc, l)
         ELSE Skip(cl, nl, tc)
    ELSE IF nl[l.A] = nl[l.B] THEN RecordDiameter(cl, nl, tc, l)
         ELSE Skip(cl, nl, tc)

(***************************************************************************)
(* Initial states: main after readInput, initNodesAndClusters, initScores   *)
(* and, for the link-driven policies, initLinks                             *)
(***************************************************************************)
\* raw score arrays with symmetric scores and a zero diagonal
SymRaw(n, d) ==
    [x \in 0 .. (n * n - 1) |->
        LET i == x \div n
            j == x % n
        IN  IF i = j THEN 0
            ELSE IF i < j THEN d[<<i, j>>] ELSE d[<<j, i>>]]

RawInputs(n) == {SymRaw(n, d) : d \in [LinkPairs(n) -> 0 .. MaxDist]}

\* the cutoffs tried: k = 1 .. N for the k-medoid policy, none for the
\* unrestricted policy; 0 (no neighbour at all) is kept for SPICKER, where it
\* changes the control flow, and left out for the link-driven policies, where
\* it only means that no link is below the cutoff
Cutoffs(alg, n) ==
    IF alg = "KMEANS" THEN 1 .. n
    ELSE IF alg = "HIERARCHICAL" THEN {0}
    ELSE IF alg = "SPICKER" THEN 0 .. (MaxDist + 1)
    ELSE 1 .. (MaxDist + 1)

\* the command line is not looked at by the clustering functions
NoArgs == [h |-> FALSE, s |-> <<>>, m |-> <<>>, d |-> <<>>]

InitWith(n, raw, alg, cut) ==
    /\ argv = NoArgs
    /\ hMenu = FALSE
    /\ measureType = 0
    /\ status = 0
    /\ inpFile = [x \in 1 .. (n * n) |-> raw[x - 1]]
    /\ rawScores = raw
    /\ totalNodes = n
    /\ normScores = initScores(n, raw)
    /\ cutoff = cut
    /\ clusterAlg = alg
    /\ nodeList = initNodes(n)
    /\ clusterList = initClusters(n)
    /\ totalClusters = n
    /\ linkList = IF alg \in LinkPolicies
                  THEN initLinks(n, initScores(n, raw)) ELSE {}
    /\ nextLink = NoLink
    /\ tempMatrix = <<>>
    /\ orphans = 0
    /\ nextCluster = 0
    /\ maxRow = -1
    /\ means = <<>>
    /\ convergence = FALSE
    /\ pc = "start"

InitAlg(algs) ==
    \E n \in 1 .. MaxNodes : \E alg \in algs :
        \E raw \in RawInputs(n) : \E cut \in Cutoffs(alg, n) :
            InitWith(n, raw, alg, cut)

Init == InitAlg(Policies)

(***************************************************************************)
(* Link-driven policies                                                     *)
(***************************************************************************)
\* nextLink = linkList.top(); linkList.pop();
Pop ==
    \E l \in Top(linkList) :
        /\ nextLink' = l
        /\ linkList' = linkList \ {l}

Apply(r) ==
    \E res \in {r} :
        /\ clusterList' = res.cl
        /\ nodeList' = res.nl
        /\ totalClusters' = res.tc

\* the front end's variables are not touched by the clustering functions
InputFrame == UNCHANGED <<argv, hMenu, measureType, status, inpFile, rawScores>>

Frame ==
    /\ InputFrame
    /\ UNCHANGED <<totalNodes, normScores, cutoff, clusterAlg, tempMatrix,
                   orphans, nextCluster, maxRow, means, convergence>>

doHierarchical ==
    /\ clusterAlg = "HIERARCHICAL"
    /\ pc \in {"start", "loop"}
    /\ \/ /\ linkList # {}
          /\ Pop
          /\ Apply(HierarchicalBody(clusterList, nodeList, totalClusters, nextLink'))
          /\ pc' = "loop"
       \/ /\ linkList = {}
          /\ pc' = "done"
          /\ UNCHANGED <<clusterList, nodeList, totalClusters, linkList, nextLink>>
    /\ Frame

\* the skeleton shared by doHierarchicalCutoff, doStrictHierarchicalCutoff and
\* doUPGMA: top() and pop() before the loop (on an empty queue, undefined
\* behaviour: the run is lost), the body and the next top()/pop() while the
\* queue is not empty
CutoffLoop(r) ==
    /\ \/ /\ pc = "start"
          /\ linkList # {}
          /\ Pop
          /\ pc' = "loop"
          /\ UNCHANGED <<clusterList, nodeList, totalClusters>>
       \/ /\ pc = "start"
          /\ linkList = {}
          /\ pc' = "crash"
          /\ UNCHANGED <<clusterList, nodeList, totalClusters, linkList, nextLink>>
       \/ /\ pc = "loop"
          /\ linkList # {}
          /\ Apply(r)
          /\ Pop
          /\ pc' = "loop"
       \/ /\ pc = "loop"
          /\ linkList = {}
          /\ pc' = "done"
          /\ UNCHANGED <<clusterList, nodeList, totalClusters, linkList, nextLink>>
    /\ Frame

doHierarchicalCutoff ==
    /\ clusterAlg = "HIERARCHICAL_CUTOFF"
    /\ CutoffLoop(HierarchicalCutoffBody(clusterList, nodeList, totalClusters,
                                         nextLink, cutoff))

doStrictHierarchicalCutoff ==
    /\ clusterAlg = "STRICT"
    /\ CutoffLoop(StrictBody(clusterList, nodeList, totalClusters, nextLink,
                             cutoff, normScores))

doUPGMA ==
    /\ clusterAlg = "UPGMA"
    /\ CutoffLoop(UPGMABody(clusterList, nodeList, totalClusters, nextLink,
                            cutoff, normScores))

(***************************************************************************)
(* doSpickerCutoff                                                          *)
(***************************************************************************)
\* (tempMatrix[i][j] < cutoff) && (tempMatrix[i][j] >= 0)
IsNeighbor(v, cut) == (v < cut) /\ (v >= 0)

NbCount(tm, i, n, cut) == Cardinality({j \in Nodes(n) : IsNeighbor(tm[i][j], cut)})

\* variant: the first row found with the largest count is kept
SelectRow_FirstFound(nbCount, maxNb, i, row) ==
    IF nbCount > maxNb \/ row = -1 THEN i ELSE row

\* maxRow = nbCount >= maxNb ? i : maxRow;  maxNb = nbCount >= maxNb ? nbCount : maxNb
SelectRow(nbCount, maxNb, i, row) == IF nbCount >= maxNb THEN i ELSE row

RECURSIVE ScanRows(_, _, _, _, _, _)
ScanRows(i, n, tm, cut, row, maxNb) ==
    IF i >= n THEN row
    ELSE LET nbCount == NbCount(tm, i, n, cut)
         IN  ScanRows(i + 1, n, tm, cut,
                      SelectRow(nbCount, maxNb, i, row),
                      IF nbCount >= maxNb THEN nbCount ELSE maxNb)

\* variant: only the entry of the selected row is erased
EraseColumn_RowOnly(tm, row, i, n) == [tm EXCEPT ![row][i] = -1]

\* tempMatrix[maxRow][i] = -1, then tempMatrix[j][i] = -1 for every row j
EraseColumn(tm, row, i, n) ==
    LET rowDone == [tm EXCEPT ![row][i] = -1]
    IN  [r \in Nodes(n) |-> [c \in Nodes(n) |-> IF c = i THEN -1 ELSE rowDone[r][c]]]

\* the second loop of an iteration, from element i on; st holds tempMatrix,
\* clusterList, nodeList, clusterMembers and orphans
RECURSIVE Collect(_, _, _, _, _, _)
Collect(i, n, row, cut, next, st) ==
    IF i >= n THEN st
    ELSE IF IsNeighbor(st.tm[row][i], cut)
         THEN Collect(i + 1, n, row, cut, next,
                      [tm      |-> EraseColumn(st.tm, row, i, n),
                       cl      |-> [st.cl EXCEPT ![st.nl[i] + 1] = setStatus(@)],
                       nl      |-> [st.nl EXCEPT ![i] = next],
                       members |-> Append(st.members, i),
                       orphans |-> st.orphans - 1])
         ELSE Collect(i + 1, n, row, cut, next, st)

\* one pass of the outer loop up to the construction of the new cluster
SpickerIteration ==
    LET row == ScanRows(0, totalNodes, tempMatrix, cutoff, -1, 0)
        st  == Collect(0, totalNodes, row, cutoff, nextCluster,
                       [tm |-> tempMatrix, cl |-> clusterList, nl |-> nodeList,
                        members |-> <<>>, orphans |-> orphans])
    IN  [tm |-> st.tm, cl |-> st.cl, nl |-> st.nl, members |-> st.members,
         orphans |-> st.orphans, maxRow |-> row]

doSpickerCutoff ==
    /\ clusterAlg = "SPICKER"
    /\ \/ /\ pc = "start"
          /\ tempMatrix' = normScores
          /\ orphans' = totalNodes
          /\ nextCluster' = Len(clusterList)
          /\ pc' = "loop"
          /\ UNCHANGED <<clusterList, nodeList, maxRow>>
       \/ /\ pc = "loop"
          /\ orphans > 0
          /\ \E st \in {SpickerIteration} :
             LET newCluster == calcMaxDistance(Cluster(nextCluster, st.members, 0),
                                               normScores)
             IN  \/ /\ st.members # <<>> \/ Len(clusterList) < MaxClusterList
                    /\ tempMatrix' = st.tm
                    /\ nodeList' = st.nl
                    /\ orphans' = st.orphans
                    /\ clusterList' = Append(st.cl, newCluster)
                    /\ nextCluster' = nextCluster + 1
                    /\ maxRow' = st.maxRow
                    /\ pc' = "loop"
                 \/ \* new Cluster on an empty member list reads members_[0]
                    /\ st.members = <<>>
                    /\ maxRow' = st.maxRow
                    /\ pc' = "crash"
                    /\ UNCHANGED <<tempMatrix, nodeList, orphans, clusterList,
                                   nextCluster>>
       \/ /\ pc = "loop"
          /\ orphans <= 0
          /\ pc' = "done"
          /\ UNCHANGED <<tempMatrix, orphans, nextCluster, maxRow, clusterList,
                         nodeList>>
    /\ InputFrame
    /\ UNCHANGED <<totalNodes, normScores, cutoff, clusterAlg, linkList, nextLink,
                   totalClusters, means, convergence>>

(***************************************************************************)
(* doKMeans                                                                 *)
(***************************************************************************)
FloatMax == 1000000

\* Cluster::setMembers replaces the member list
setMembers(c, members) == [c EXCEPT !.members = members]

\* Cluster::calcMean: the first member, in list order, with the smallest sum
\* of distances to the members; the medoid is kept when there is no member
RECURSIVE MeanScan(_, _, _, _, _)
MeanScan(x, members, scores, minSum, mean) ==
    IF x > Len(members) THEN mean
    ELSE LET s == SumSeq([y \in 1 .. Len(members) |-> scores[members[x]][members[y]]])
         IN  IF x = 1 \/ s < minSum
             THEN MeanScan(x + 1, members, scores, s, members[x])
             ELSE MeanScan(x + 1, members, scores, minSum, mean)

calcMean(members, scores, oldMean) == MeanScan(1, members, scores, 0, oldMean)

\* for (i < totalNodes) clusterList[nodeList[i]->getCluster()]->setStatus();
RECURSIVE DeactivateAll(_, _, _, _)
DeactivateAll(i, n, cl, nl) ==
    IF i >= n THEN cl
    ELSE DeactivateAll(i + 1, n, [cl EXCEPT ![nl[i] + 1] = setStatus(@)], nl)

\* the k distinct random draws of the initial medoids
InitialMeans(n, k) ==
    {ms \in [1 .. k -> Nodes(n)] : \A a, b \in 1 .. k : a # b => ms[a] # ms[b]}

\* means[i]->setCluster(i), i = 0 .. k-1
RECURSIVE SetMeanClusters(_, _, _)
SetMeanClusters(x, ms, nl) ==
    IF x > Len(ms) THEN nl
    ELSE SetMeanClusters(x + 1, ms, [nl EXCEPT ![ms[x]] = x - 1])

\* the scan over the k medoids: if (dToMean < minDistToMean) {...}
CloserMean(dToMean, minDistToMean) == dToMean < minDistToMean

RECURSIVE ClosestScan(_, _, _, _, _)
ClosestScan(x, ms, row, minDistToMean, closestMean) ==
    IF x > Len(ms) THEN closestMean
    ELSE IF CloserMean(row[ms[x]], minDistToMean)
         THEN ClosestScan(x + 1, ms, row, row[ms[x]], ms[x])
         ELSE ClosestScan(x + 1, ms, row, minDistToMean, closestMean)

ClosestMean(i, ms, scores) == ClosestScan(1, ms, scores[i], FloatMax, ms[1])

\* nodeList[i]->setCluster(closestMean->getCluster());
\* kMembers[closestMean->getCluster()].push_back(nodeList[i]);
AssignNode(i, closestMean, st) ==
    LET c == st.nl[closestMean]
    IN  [nl |-> [st.nl EXCEPT ![i] = c],
         km |-> [st.km EXCEPT ![c + 1] = Append(@, i)]]

\* the assignment loop from element i on; st holds nodeList and kMembers
RECURSIVE AssignNodes(_, _, _, _, _)
AssignNodes(i, n, ms, scores, st) ==
    IF i >= n THEN st
    ELSE AssignNodes(i + 1, n, ms, scores,
                     AssignNode(i, ClosestMean(i, ms, scores), st))

\* variant: kMembers[i] still holds the medoid pushed at construction
Assignment_KeepMedoid(n, k, ms, scores, nl) ==
    AssignNodes(0, n, ms, scores, [nl |-> nl, km |-> [x \in 1 .. k |-> <<ms[x]>>]])

Assignment(n, k, ms, scores, nl) ==
    AssignNodes(0, n, ms, scores, [nl |-> nl, km |-> [x \in 1 .. k |-> <<>>]])

\* for (i < kMeans) clusterList[i]->setMembers(kMembers[i]);
SetAllMembers(cl, km) ==
    [x \in 1 .. Len(cl) |-> IF x <= Len(km) THEN setMembers(cl[x], km[x]) ELSE cl[x]]

\* variant: only the last cluster's comparison decides
Converged_LastOnly(oldMeans, newMeans) ==
    oldMeans[Len(oldMeans)] = newMeans[Len(newMeans)]

\* convergence stays true when no cluster's medoid id differs from oldMean
Converged(oldMeans, newMeans) ==
    \A x \in 1 .. Len(oldMeans) : ~ (oldMeans[x] # newMeans[x])

\* the update step: means[i] = medoid of cluster i.  oldMean, the cluster's
\* getMean() before calcMean, is means[i]: line 461 stores it after every
\* update, and a roster cluster is built on its medoid alone
UpdateMeans(cl, k, scores, ms) ==
    [x \in 1 .. k |-> calcMean(cl[x].members, scores, ms[x])]

doKMeans ==
    /\ clusterAlg = "KMEANS"
    /\ \/ /\ pc = "start"
          /\ means' \in InitialMeans(totalNodes, cutoff)
          /\ \E st \in {Assignment(totalNodes, cutoff, means', normScores,
                                SetMeanClusters(1, means', nodeList))} :
                LET k == cutoff
                    inactive == DeactivateAll(0, totalNodes, clusterList, nodeList)
                    roster == [x \in 1 .. k |-> Cluster(x - 1, <<means'[x]>>, 0)]
                IN  /\ nodeList' = st.nl
                    /\ clusterList' = SetAllMembers(roster \o inactive, st.km)
          /\ convergence' = FALSE
          /\ pc' = "loop"
       \/ /\ pc = "loop"
          /\ \E ms \in {UpdateMeans(clusterList, cutoff, normScores, means)} :
             \E st \in {Assignment(totalNodes, cutoff, ms, normScores, nodeList)} :
                /\ means' = ms
                /\ convergence' = Converged(means, ms)
                /\ nodeList' = st.nl
                /\ clusterList' = SetAllMembers(clusterList, st.km)
                /\ pc' = IF Converged(means, ms) THEN "done" ELSE "loop"
    /\ InputFrame
    /\ UNCHANGED <<totalNodes, normScores, cutoff, clusterAlg, linkList, nextLink,
                   totalClusters, tempMatrix, orphans, nextCluster, maxRow>>

(***************************************************************************)
(* Output generation of main: calcCentroid on every active cluster          *)
(***************************************************************************)
Output ==
    /\ pc = "done"
    /\ clusterList' =
           [x \in 1 .. Len(clusterList) |->
               IF clusterList[x].active
               THEN calcCentroid(clusterList[x], normScores)
               ELSE clusterList[x]]
    /\ pc' = "output"
    /\ InputFrame
    /\ UNCHANGED <<totalNodes, normScores, cutoff, clusterAlg, nodeList, linkList,
                   nextLink, totalClusters, tempMatrix, orphans, nextCluster,
                   maxRow, means, convergence>>

(***************************************************************************)
(* Front end: readParameters and readInput of input.cpp, and the readInput  *)
(* and initScores of the earlier revision kept in main.cpp.  Scores and     *)
(* cutoff of the front end are in fixed point: Unit stands for 1.0.         *)
(***************************************************************************)
Unit == 4
MaxLines == 4
MaxRaw == 2
MaxRawNodes == 2
MaxSelector == 6

\* 1/0.0: the reciprocal of a similarity of zero
Infinity == FloatMax + 1

\* the clustering state before initNodesAndClusters
NotStarted ==
    /\ nodeList = <<>>
    /\ clusterList = <<>>
    /\ linkList = {}
    /\ nextLink = NoLink
    /\ totalClusters = 0
    /\ tempMatrix = <<>>
    /\ orphans = 0
    /\ nextCluster = 0
    /\ maxRow = -1
    /\ means = <<>>
    /\ convergence = FALSE

\* the value a parameter holds after the argument loop: the one given on the
\* command line (after atoi/atof), else the caller's
Option(given, current) == IF given = <<>> THEN current ELSE given[1]

\* "Evaluate options chosen": the value readParameters returns
EvaluateOptions(h, alg, mt) ==
    IF h THEN 1
    ELSE IF alg > 4 /\ alg < 0 THEN 1
    ELSE IF mt < 0 \/ mt > 1 THEN 1
    ELSE 0

\* if ((measureType==1) && (clusterAlg!=2)) cutoff = 1 - cutoff, reached only
\* when nothing was rejected
ConvertCutoff(ret, alg, mt, cut) ==
    IF ret = 0 /\ mt = 1 /\ alg # 2 THEN Unit - cut ELSE cut

readParameters ==
    /\ pc = "args"
    /\ LET h   == hMenu \/ argv.h
           alg == Option(argv.s, clusterAlg)
           mt  == Option(argv.m, measureType)
           cut == Option(argv.d, cutoff)
           ret == EvaluateOptions(h, alg, mt)
       IN  /\ hMenu' = h
           /\ clusterAlg' = alg
           /\ measureType' = mt
           /\ cutoff' = ConvertCutoff(ret, alg, mt, cut)
           /\ status' = ret
           /\ pc' = IF ret = 0 THEN "input" ELSE "exit"
    /\ UNCHANGED <<argv, inpFile, rawScores, totalNodes, normScores, nodeList,
                   clusterList, linkList, nextLink, totalClusters, tempMatrix,
                   orphans, nextCluster, maxRow, means, convergence>>

\* input.cpp: inputScore = (1/atof(..)) - 1 for similarities; the expression
\* (1 - atof(..)) on the next line is a statement of its own, without effect
inputScore(score, mt) ==
    IF mt = 1
    THEN IF score = 0 THEN Infinity ELSE (Unit * Unit) \div score - Unit
    ELSE score

\* main.cpp: inputScore = 1 - atof(..) for similarities
main_inputScore(score, mt) == IF mt = 1 THEN Unit - score ELSE score

\* (int)sqrt((double)line)
ISqrt(line) == CHOOSE r \in 0 .. line : r * r <= line /\ (r + 1) * (r + 1) > line

readInput ==
    /\ pc = "input"
    /\ rawScores' = [x \in 0 .. (Len(inpFile) - 1) |->
                        inputScore(inpFile[x + 1], measureType)]
    /\ totalNodes' = ISqrt(Len(inpFile))
    /\ pc' = "read"
    /\ UNCHANGED <<argv, hMenu, measureType, status, inpFile, normScores, cutoff,
                   clusterAlg, nodeList, clusterList, linkList, nextLink,
                   totalClusters, tempMatrix, orphans, nextCluster, maxRow, means,
                   convergence>>

main_readInput ==
    /\ pc = "input"
    /\ rawScores' = [x \in 0 .. (Len(inpFile) - 1) |->
                        main_inputScore(inpFile[x + 1], measureType)]
    /\ totalNodes' = ISqrt(Len(inpFile))
    /\ pc' = "read_main"
    /\ UNCHANGED <<argv, hMenu, measureType, status, inpFile, normScores, cutoff,
                   clusterAlg, nodeList, clusterList, linkList, nextLink,
                   totalClusters, tempMatrix, orphans, nextCluster, maxRow, means,
                   convergence>>

\* main.cpp: the score is 0 as soon as one of the two raw scores is 0
main_normScore(i, j, a, b) ==
    IF i = j \/ a = 0 \/ b = 0 THEN 0 ELSE (2 * (a * b)) \div (a + b)

main_initScores(n, raw) ==
    [i \in Nodes(n) |->
        [j \in Nodes(n) |-> main_normScore(i, j, raw[i * n + j], raw[j * n + i])]]

\* the call initScores(totalNodes, rawScores, normScores) of main
InitScoresCall ==
    /\ pc = "read"
    /\ normScores' = initScores(totalNodes, rawScores)
    /\ pc' = "normalized"
    /\ UNCHANGED <<argv, hMenu, measureType, status, inpFile, rawScores,
                   totalNodes, cutoff, clusterAlg, nodeList, clusterList, linkList,
                   nextLink, totalClusters, tempMatrix, orphans, nextCluster,
                   maxRow, means, convergence>>

main_InitScoresCall ==
    /\ pc = "read"
    /\ normScores' = main_initScores(totalNodes, rawScores)
    /\ pc' = "normalized_main"
    /\ UNCHANGED <<argv, hMenu, measureType, status, inpFile, rawScores,
                   totalNodes, cutoff, clusterAlg, nodeList, clusterList, linkList,
                   nextLink, totalClusters, tempMatrix, orphans, nextCluster,
                   maxRow, means, convergence>>

\* command lines: -h given or not; -s, -m, -d absent or given with a value
Arguments ==
    [h : BOOLEAN,
     s : {<<>>} \cup {<<v>> : v \in (-1) .. MaxSelector},
     m : {<<>>} \cup {<<v>> : v \in (-1) .. 2},
     d : {<<>>} \cup {<<v>> : v \in 0 .. Unit}]

\* the caller's defaults are in range
ParametersInit ==
    /\ argv \in Arguments
    /\ hMenu = FALSE
    /\ clusterAlg \in 0 .. 4
    /\ measureType \in 0 .. 1
    /\ cutoff = Unit \div 2
    /\ status = -1
    /\ inpFile = <<>>
    /\ rawScores = <<>>
    /\ totalNodes = 0
    /\ normScores = <<>>
    /\ NotStarted
    /\ pc = "args"

SpecParameters == ParametersInit /\ [][readParameters]_vars

\* input files of up to MaxLines lines, scores from 0.0 to 1.0
InputFiles == UNION {[1 .. len -> 0 .. Unit] : len \in 0 .. MaxLines}

InputInit ==
    /\ argv = NoArgs
    /\ hMenu = FALSE
    /\ clusterAlg = 0
    /\ measureType \in 0 .. 1
    /\ cutoff = Unit \div 2
    /\ status = 0
    /\ inpFile \in InputFiles
    /\ rawScores = <<>>
    /\ totalNodes = 0
    /\ normScores = <<>>
    /\ NotStarted
    /\ pc = "input"

SpecReadInput == InputInit /\ [][readInput \/ main_readInput]_vars

\* raw score arrays of N * N entries, the two directions of a pair and the
\* diagonal free; scores in sixths, which keeps the means of these values exact
RawValues == {6 * v : v \in 0 .. MaxRaw}

ScoresInit ==
    /\ argv = NoArgs
    /\ hMenu = FALSE
    /\ clusterAlg = 0
    /\ measureType = 0
    /\ cutoff = Unit \div 2
    /\ status = 0
    /\ inpFile = <<>>
    /\ totalNodes \in 1 .. MaxRawNodes
    /\ rawScores \in [0 .. (totalNodes * totalNodes - 1) -> RawValues]
    /\ normScores = <<>>
    /\ NotStarted
    /\ pc = "read"

SpecInitScores == ScoresInit /\ [][InitScoresCall \/ main_InitScoresCall]_vars

(***************************************************************************)
(* Specifications                                                           *)
(***************************************************************************)
Next ==
    \/ doHierarchical
    \/ doHierarchicalCutoff
    \/ doStrictHierarchicalCutoff
    \/ doUPGMA
    \/ doSpickerCutoff
    \/ doKMeans

Spec == Init /\ [][Next]_vars

\* the 4-element scenario, in hundredths: d(0,1) = d(2,3) = 0.10, the four
\* cross distances 0.90, symmetric raw scores; cutoff 0.50 or 0.95
ScenarioRaw ==
    [x \in 0 .. 15 |->
        LET i == x \div 4
            j == x % 4
        IN  IF i = j THEN 0
            ELSE IF {i, j} = {0, 1} \/ {i, j} = {2, 3} THEN 10 ELSE 90]

ScenarioInit ==
    \E alg \in {"HIERARCHICAL_CUTOFF", "STRICT"} : \E cut \in {50, 95} :
        InitWith(4, ScenarioRaw, alg, cut)

SpecScenario ==
    ScenarioInit /\ [][doHierarchicalCutoff \/ doStrictHierarchicalCutoff]_vars

\* one specification per policy: the runs main makes with that selector
SpecHierarchical ==
    InitAlg({"HIERARCHICAL"}) /\ [][doHierarchical]_vars /\ WF_vars(doHierarchical)

SpecCutoff == InitAlg({"HIERARCHICAL_CUTOFF"}) /\ [][doHierarchicalCutoff]_vars

SpecStrict == InitAlg({"STRICT"}) /\ [][doStrictHierarchicalCutoff]_vars

SpecUPGMA == InitAlg({"UPGMA"}) /\ [][doUPGMA]_vars

SpecSpicker == InitAlg({"SPICKER"}) /\ [][doSpickerCutoff]_vars

SpecKMeans == InitAlg({"KMEANS"}) /\ [][doKMeans]_vars

\* a policy followed by the output generation
SpecOutput == Init /\ [][Next \/ Output]_vars

\* the four policies that consume the link queue
SpecLinkDriven ==
    InitAlg(LinkPolicies)
        /\ [][doHierarchical \/ doHierarchicalCutoff
                \/ doStrictHierarchicalCutoff \/ doUPGMA]_vars

\* SPICKER on four elements: every pair either at distance 0, a neighbor pair
\* under the cutoff 1, or at distance MaxDist, not one
SpickerFourInit ==
    \E d \in [LinkPairs(4) -> {0, MaxDist}] :
        InitWith(4, SymRaw(4, d), "SPICKER", 1)

SpecSpickerFour == SpickerFourInit /\ [][doSpickerCutoff]_vars

\* the k-medoid policy on six elements with distances 0 .. 3, several pairs
\* at distance 0; k up to 3 and every draw of the initial medoids
KMeansSixRows ==
    << <<0, 1, 1, 1, 0, 1>>,
       <<1, 0, 0, 3, 3, 0>>,
       <<1, 0, 0, 0, 0, 2>>,
       <<1, 3, 0, 0, 3, 2>>,
       <<0, 3, 0, 3, 0, 0>>,
       <<1, 0, 2, 2, 0, 0>> >>

KMeansSixRaw == [x \in 0 .. 35 |-> KMeansSixRows[(x \div 6) + 1][(x % 6) + 1]]

KMeansSixInit == \E k \in 1 .. 3 : InitWith(6, KMeansSixRaw, "KMEANS", k)

\* the do-while loop goes on as long as convergence is false
SpecKMeansSix == KMeansSixInit /\ [][doKMeans]_vars /\ WF_vars(doKMeans)

(***************************************************************************)
(* Vocabulary of the properties                                             *)
(***************************************************************************)
AllNodes == Nodes(totalNodes)

ActiveClusters == {x \in 1 .. Len(clusterList) : clusterList[x].active}

MemberSet(x) == Range(clusterList[x].members)

\* no element is listed twice in the member list of cluster x
NoDuplicates(x) ==
    \A a, b \in 1 .. Len(clusterList[x].members) :
        a # b => clusterList[x].members[a] # clusterList[x].members[b]

\* the active clusters that list element e
ActiveOwners(e) == {x \in ActiveClusters : e \in MemberSet(x)}

RECURSIVE SumOver(_, _, _)
\* sum of normScores[a][b] over the pairs of a set of pairs
SumOver(pairs, scores, acc) ==
    IF pairs = {} THEN acc
    ELSE LET p == CHOOSE q \in pairs : TRUE
         IN  SumOver(pairs \ {p}, scores, acc + scores[p[1]][p[2]])

RECURSIVE ReachableBelow(_)
\* the elements joined to the set S by paths whose steps are all below cutoff
ReachableBelow(S) ==
    LET T == S \cup {y \in AllNodes : \E x \in S : normScores[x][y] < cutoff}
    IN  IF T = S THEN S ELSE ReachableBelow(T)

(***************************************************************************)
(* C1: unrestricted hierarchical clustering, started from the N singleton   *)
(* clusters, consumes every link, terminates, and ends with exactly one     *)
(* active cluster of the master list, whose members are all N elements.     *)
(***************************************************************************)
OneClusterOfAll ==
    /\ Cardinality(ActiveClusters) = 1
    /\ \A x \in ActiveClusters :
          /\ MemberSet(x) = AllNodes
          /\ Len(clusterList[x].members) = totalNodes

C1_HierarchicalEndsInOneCluster ==
    <>[](pc = "done" /\ linkList = {} /\ OneClusterOfAll)

C1_Witness ==
    /\ clusterAlg = "HIERARCHICAL"
    /\ pc = "done"
    /\ totalNodes = 3
    /\ Len(clusterList) = 5
    /\ OneClusterOfAll

(***************************************************************************)
(* C2: under every policy, after initialization and after every completed   *)
(* step, every element is a member of exactly one active cluster, and the   *)
(* element's clusterId is that cluster's id.                                *)
(***************************************************************************)
C2_OneActiveOwner ==
    \A e \in AllNodes :
        /\ Cardinality(ActiveOwners(e)) = 1
        /\ \A x \in ActiveOwners(e) : clusterList[x].id = nodeList[e]

C2_Witness ==
    /\ clusterAlg = "UPGMA"
    /\ pc = "done"
    /\ totalNodes = 3
    /\ \E x \in ActiveClusters : Cardinality(MemberSet(x)) = 2
    /\ \E x \in 1 .. Len(clusterList) :
          ~ clusterList[x].active /\ Cardinality(MemberSet(x)) = 1

(***************************************************************************)
(* C3: when doHierarchicalCutoff has finished, any two members of one       *)
(* active cluster are joined by a path of elements whose consecutive        *)
(* normalized distances are all strictly below the cutoff.                  *)
(***************************************************************************)
C3_SingleLinkChaining ==
    pc = "done" =>
        \A x \in ActiveClusters : \A a, b \in MemberSet(x) :
            b \in ReachableBelow({a})

\* a chained cluster: two of its members are not below the cutoff themselves
C3_Witness ==
    /\ clusterAlg = "HIERARCHICAL_CUTOFF"
    /\ pc = "done"
    /\ \E x \in ActiveClusters : \E a, b \in MemberSet(x) :
          normScores[a][b] >= cutoff

(***************************************************************************)
(* C4: under the strict policy any two distinct members of one active       *)
(* cluster are strictly below the cutoff in every reachable state, and a    *)
(* step that merges two clusters finds every pair across them below the     *)
(* cutoff.                                                                  *)
(***************************************************************************)
AllPairsBelow(A, B) == \A a \in A : \A b \in B : normScores[a][b] < cutoff

C4_CompleteLinkClusters ==
    \A x \in ActiveClusters : \A a, b \in MemberSet(x) :
        a # b => normScores[a][b] < cutoff

\* the clusters a step takes out of the partition
Superseded ==
    {x \in 1 .. Len(clusterList) : clusterList[x].active /\ ~ clusterList'[x].active}

C4_MergeStep ==
    Len(clusterList') > Len(clusterList) =>
        /\ Cardinality(Superseded) = 2
        /\ \A x, y \in Superseded : x # y => AllPairsBelow(MemberSet(x), MemberSet(y))

C4_StrictCompleteLink == [] C4_CompleteLinkClusters /\ [][C4_MergeStep]_vars

C4_Witness ==
    /\ clusterAlg = "STRICT"
    /\ totalNodes = 3
    /\ Len(clusterList) = 5
    /\ \E x \in ActiveClusters : Cardinality(MemberSet(x)) = 3

(***************************************************************************)
(* C5: under the UPGMA policy a step merges the clusters A and B owning the *)
(* two elements of its link only if the link distance is below the cutoff   *)
(* and the arithmetic mean of the |A|*|B| distances between members of A    *)
(* and members of B is strictly below the cutoff; any other link leaves the *)
(* partition as it is.                                                      *)
(***************************************************************************)
\* mean of the distances between A and B strictly below the cutoff
MeanBelowCutoff(A, B) ==
    SumOver(A \X B, normScores, 0) < cutoff * (Cardinality(A) * Cardinality(B))

Merged == Len(clusterList') > Len(clusterList)

C5_Step ==
    IF pc # "loop" THEN ~ Merged
    ELSE LET A == MemberSet(nodeList[nextLink.A] + 1)
             B == MemberSet(nodeList[nextLink.B] + 1)
         IN  /\ Merged =>
                   /\ nextLink.distance < cutoff
                   /\ MeanBelowCutoff(A, B)
                   /\ Range(clusterList'[Len(clusterList')].members) = A \cup B
             /\ ~ (nextLink.distance < cutoff /\ MeanBelowCutoff(A, B)) =>
                   /\ ~ Merged
                   /\ nodeList' = nodeList
                   /\ \A x \in 1 .. Len(clusterList) :
                         /\ clusterList'[x].active = clusterList[x].active
                         /\ clusterList'[x].members = clusterList[x].members

C5_UPGMAMergeOnlyBelowMean == [][C5_Step]_vars

\* a merge of a two-element cluster with a singleton whose farther member is
\* not below the cutoff: only the mean admits it
C5_Witness ==
    /\ clusterAlg = "UPGMA"
    /\ \E x \in ActiveClusters :
          /\ Cardinality(MemberSet(x)) = 3
          /\ \E a, b \in MemberSet(x) : normScores[a][b] >= cutoff

(***************************************************************************)
(* C6: when doSpickerCutoff has finished, the clusters it created are       *)
(* pairwise disjoint, list every element of 0..N-1 exactly once, and are    *)
(* exactly the active clusters: the N initial singletons are all inactive.  *)
(***************************************************************************)
\* the clusters appended after the N initial singletons
Created == (totalNodes + 1) .. Len(clusterList)

C6_SpickerPartition ==
    pc = "done" =>
        /\ \A x, y \in Created : x # y => MemberSet(x) \cap MemberSet(y) = {}
        /\ \A x \in Created : NoDuplicates(x)
        /\ \A e \in AllNodes : Cardinality({x \in Created : e \in MemberSet(x)}) = 1
        /\ ActiveClusters = Created
        /\ \A x \in 1 .. totalNodes : ~ clusterList[x].active

C6_Witness ==
    /\ clusterAlg = "SPICKER"
    /\ pc = "done"
    /\ totalNodes = 3
    /\ Cardinality(Created) = 2
    /\ \E x \in Created : Cardinality(MemberSet(x)) = 2

(***************************************************************************)
(* C7: when doKMeans has finished (1 <= k <= N), the member lists of the k  *)
(* roster clusters partition the N elements: every element is listed by     *)
(* exactly one of them, none twice, and its clusterId is the index of the   *)
(* cluster listing it; also when distinct elements are at distance zero.    *)
(***************************************************************************)
\* the k clusters at the front of the master list
Roster == 1 .. cutoff

C7_KMeansPartition ==
    pc = "done" =>
        /\ \A e \in AllNodes :
              /\ Cardinality({x \in Roster : e \in MemberSet(x)}) = 1
              /\ \A x \in Roster : e \in MemberSet(x) => nodeList[e] = x - 1
        /\ \A x \in Roster : NoDuplicates(x) /\ MemberSet(x) \subseteq AllNodes

\* two of the medoids are at distance zero from each other
C7_Witness ==
    /\ clusterAlg = "KMEANS"
    /\ pc = "done"
    /\ cutoff >= 2
    /\ \E a, b \in 1 .. Len(means) :
          a # b /\ means[a] # means[b] /\ normScores[means[a]][means[b]] = 0

ActiveMemberSets == {MemberSet(x) : x \in ActiveClusters}

TwoPairs ==
    /\ Cardinality(ActiveClusters) = 2
    /\ ActiveMemberSets = {{0, 1}, {2, 3}}

C9_ScenarioCutoffTwoPairs ==
    (clusterAlg = "HIERARCHICAL_CUTOFF" /\ cutoff = 50 /\ pc = "done") => TwoPairs

C9_Witness ==
    /\ clusterAlg = "HIERARCHICAL_CUTOFF"
    /\ cutoff = 50
    /\ pc = "done"
    /\ normScores[0][1] = 10
    /\ normScores[1][2] = 90
    /\ Len(clusterList) = 6

(***************************************************************************)
(* C10: on the same scenario the strict policy ends with one active cluster *)
(* of all four elements when the cutoff is 0.95, and with exactly the two   *)
(* active clusters {0,1} and {2,3} when it is 0.5, whatever the order in    *)
(* which links of equal distance are popped.                                *)
(***************************************************************************)
C10_ScenarioStrict ==
    (clusterAlg = "STRICT" /\ pc = "done") =>
        /\ cutoff = 95 => OneClusterOfAll
        /\ cutoff = 50 => TwoPairs

C10_Witness ==
    /\ clusterAlg = "STRICT"
    /\ cutoff = 95
    /\ pc = "done"
    /\ Len(clusterList) = 7
    /\ normScores[0][2] = 90

(***************************************************************************)
(* C11: in every reachable state of every policy no two cluster objects of  *)
(* the master cluster list have the same id.                                *)
(***************************************************************************)
C11_UniqueClusterIds ==
    \A x, y \in 1 .. Len(clusterList) :
        x # y => clusterList[x].id # clusterList[y].id

(***************************************************************************)
(* C12: when a link-driven cutoff policy (doHierarchicalCutoff,             *)
(* doStrictHierarchicalCutoff, doUPGMA) has finished, the recorded          *)
(* maxDistance of every active cluster equals the maximum normalized        *)
(* distance over all pairs of its members, the value a fresh                *)
(* calcMaxDistance scan of the cluster returns.                             *)
(***************************************************************************)
C12_RecordedDiameterIsMaximum ==
    (clusterAlg \in {"HIERARCHICAL_CUTOFF", "STRICT", "UPGMA"} /\ pc = "done") =>
        \A x \in ActiveClusters :
            clusterList[x].maxDistance =
                calcMaxDistance(clusterList[x], normScores).maxDistance

(***************************************************************************)
(* C13: for every N and every raw score array of N * N entries, initScores  *)
(* produces an N x N matrix that is symmetric and has a zero diagonal.      *)
(***************************************************************************)
C13_SymmetricZeroDiagonal ==
    pc \in {"normalized", "normalized_main"} =>
        /\ DOMAIN normScores = Nodes(totalNodes)
        /\ \A i \in Nodes(totalNodes) :
              /\ DOMAIN normScores[i] = Nodes(totalNodes)
              /\ normScores[i][i] = 0
              /\ \A j \in Nodes(totalNodes) : normScores[i][j] = normScores[j][i]

\* the two directions of a pair differ and the raw diagonal is not zero
C13_Witness ==
    /\ pc = "normalized"
    /\ totalNodes = 2
    /\ rawScores[0] # 0
    /\ rawScores[1] # 0
    /\ rawScores[2] # 0
    /\ rawScores[1] # rawScores[2]
    /\ normScores[0][1] # 0

(***************************************************************************)
(* C14: for every ordered pair i # j, initScores yields 0 when raw[i,j] and *)
(* raw[j,i] are both 0, the arithmetic mean of the two when exactly one of  *)
(* them is 0, and their harmonic mean 2ab/(a+b) otherwise; a zero on one or *)
(* both sides is no error: the matrix is produced all the same.             *)
(***************************************************************************)
RawPair(i, j) ==
    [a |-> rawScores[i * totalNodes + j], b |-> rawScores[j * totalNodes + i]]

Min(a, b) == IF a <= b THEN a ELSE b

Max(a, b) == IF a >= b THEN a ELSE b

StoredAs(x) == rawScores[x - 1]

C16_SimilarityStoredAsOneMinus ==
    pc \in {"read", "read_main"} =>
        /\ DOMAIN rawScores = 0 .. (Len(inpFile) - 1)
        /\ \A x \in 1 .. Len(inpFile) :
              /\ measureType = 1 => StoredAs(x) = Unit - inpFile[x]
              /\ measureType = 0 => StoredAs(x) = inpFile[x]

(***************************************************************************)
(* C17: readParameters returns 1, so that no clustering work begins, for    *)
(* every configuration whose selector clusterAlg is outside 0..4 or whose   *)
(* measureType is outside 0..1, and returns 0 only when both are in range   *)
(* and the help flag is not set.                                            *)
(***************************************************************************)
InRange == clusterAlg \in 0 .. 4 /\ measureType \in 0 .. 1

C17_OutOfRangeRejected ==
    pc \in {"input", "exit"} =>
        /\ ~ InRange => (status = 1 /\ pc = "exit")
        /\ status = 0 => (InRange /\ ~ hMenu)

(***************************************************************************)
(* C18: when doHierarchicalCutoff has finished on N >= 2 elements, any two  *)
(* elements whose normalized distance is strictly below the cutoff are      *)
(* members of the same active cluster: every link below the cutoff between  *)
(* different clusters has caused a merge, the largest one and the only link *)
(* of N = 2 included.                                                       *)
(***************************************************************************)
SameActiveCluster(a, b) ==
    \E x \in ActiveClusters : a \in MemberSet(x) /\ b \in MemberSet(x)

C18_BelowCutoffTogether ==
    (clusterAlg = "HIERARCHICAL_CUTOFF" /\ pc = "done" /\ totalNodes >= 2) =>
        \A a, b \in AllNodes :
            normScores[a][b] < cutoff => SameActiveCluster(a, b)

(***************************************************************************)
(* C19: in each SPICKER iteration the row selected is one with the largest  *)
(* neighbor count (entries v of the working matrix with 0 <= v < cutoff).   *)
(* As claimed, the row of lowest index among those of largest count is      *)
(* selected (C19_LowestIndexOnTies); as amended, the row of highest index   *)
(* among them (C19_HighestIndexOnTies).                                     *)
(***************************************************************************)
\* neighbor count of row i in the working matrix before the step
Neighbors(i) ==
    Cardinality({j \in AllNodes : 0 <= tempMatrix[i][j] /\ tempMatrix[i][j] < cutoff})

\* a step that runs the row scan
Scans == clusterAlg = "SPICKER" /\ pc = "loop" /\ orphans > 0

SelectsLargestCount ==
    /\ maxRow' \in AllNodes
    /\ \A i \in AllNodes : Neighbors(i) <= Neighbors(maxRow')

C19_LowestIndexOnTies ==
    [][Scans =>
          /\ SelectsLargestCount
          /\ \A i \in AllNodes : Neighbors(i) = Neighbors(maxRow') => maxRow' <= i]_vars

C19_HighestIndexOnTies ==
    [][Scans =>
          /\ SelectsLargestCount
          /\ \A i \in AllNodes : Neighbors(i) = Neighbors(maxRow') => i <= maxRow']_vars

\* after the first iteration on a matrix whose three rows all have three
\* neighbors: the last row was selected
C19_Witness ==
    /\ clusterAlg = "SPICKER"
    /\ totalNodes = 3
    /\ \A i, j \in AllNodes : normScores[i][j] < cutoff
    /\ nextCluster = totalNodes + 1
    /\ maxRow = 2
    /\ Len(clusterList[Len(clusterList)].members) = 3

(***************************************************************************)
(* C20: doSpickerCutoff terminates for every normalized matrix and every    *)
(* cutoff: each iteration of its outer loop puts at least one element into  *)
(* the new cluster, which is never empty, so that the loop runs at most N   *)
(* times, creates at most N clusters and is never lost on the way.          *)
(***************************************************************************)
C20_SpickerIterationsBounded ==
    clusterAlg = "SPICKER" =>
        /\ pc # "crash"
        /\ \A x \in Created : clusterList[x].members # <<>>
        /\ Cardinality(Created) <= totalNodes

(***************************************************************************)
(* C21: in every SPICKER iteration the element whose row is selected is     *)
(* still unassigned when it is selected and is a member of the cluster the  *)
(* iteration creates; the row of an element placed in an earlier cluster is *)
(* never selected.                                                          *)
(***************************************************************************)
\* element e has not been put into a created cluster yet
Unassigned(e) == nodeList[e] < totalNodes

FirstClosest(e) ==
    CHOOSE x \in 1 .. Len(means) :
        /\ \A y \in 1 .. Len(means) : normScores[e][means[x]] <= normScores[e][means[y]]
        /\ \A y \in 1 .. (x - 1) : normScores[e][means[y]] > normScores[e][means[x]]

C22_AssignedToClosestMedoid ==
    (clusterAlg = "KMEANS" /\ pc \in {"loop", "done"}) =>
        \A e \in AllNodes :
            /\ nodeList[e] = FirstClosest(e) - 1
            /\ e \in MemberSet(FirstClosest(e))

(***************************************************************************)
(* C23: for every normalized matrix, every k and every draw of the initial  *)
(* medoids, the update/assignment loop of doKMeans reaches an iteration in  *)
(* which no medoid changes and exits; it never cycles for ever             *)
(***************************************************************************)
C23_KMeansLoopExits == (clusterAlg = "KMEANS" /\ pc = "loop") ~> (pc = "done")

(***************************************************************************)
(* C24: a merge of the distinct active clusters A and B creates one new     *)
(* cluster whose id is the next unused counter value, equal to its index in *)
(* the master list, whose members are A's members followed by B's and whose *)
(* maxDistance is the link distance; A and B become inactive, exactly the   *)
(* members of A and B get the new clusterId, and every other element and    *)
(* every other cluster is left as it was                                    *)
(***************************************************************************)
\* the link a step decides: doHierarchical pops it in the step itself, the
\* cutoff loops decide the link popped by the step before
DecidedLink == IF clusterAlg = "HIERARCHICAL" THEN nextLink' ELSE nextLink

C24_Step ==
    (clusterAlg \in LinkPolicies /\ Merged) =>
        LET a == nodeList[DecidedLink.A] + 1
            b == nodeList[DecidedLink.B] + 1
            c == Len(clusterList')
        IN  /\ a # b
            /\ clusterList[a].active /\ clusterList[b].active
            /\ c = Len(clusterList) + 1
            /\ clusterList'[c].id = totalClusters
            /\ clusterList'[c].id = c - 1
            /\ totalClusters' = totalClusters + 1
            /\ clusterList'[c].members = clusterList[a].members \o clusterList[b].members
            /\ clusterList'[c].maxDistance = DecidedLink.distance
            /\ ~ clusterList'[a].active /\ ~ clusterList'[b].active
            /\ \A e \in AllNodes :
                  nodeList'[e] = IF e \in MemberSet(a) \cup MemberSet(b)
                                 THEN c - 1 ELSE nodeList[e]
            /\ \A x \in 1 .. Len(clusterList) :
                  x \notin {a, b} => clusterList'[x] = clusterList[x]

C24_MergeFrame == [][C24_Step]_vars

\* a two-element cluster, itself the product of a merge, merged with a
\* singleton over a link of positive distance
C24_Witness ==
    /\ clusterAlg \in LinkPolicies
    /\ totalNodes = 3
    /\ Len(clusterList) = 5
    /\ clusterList[5].active
    /\ Len(clusterList[5].members) = 3
    /\ ~ clusterList[4].active
    /\ clusterList[5].maxDistance > 0

(***************************************************************************)
(* C25: in every link-driven policy the links are decided in non-decreasing *)
(* order of distance: when a link is decided, no link still in the queue    *)
(* has a strictly smaller distance, and no link decided later has, whatever *)
(* the order in which initLinks inserted the links                          *)
(***************************************************************************)
C25_NoSmallerLinkLeft ==
    (clusterAlg \in LinkPolicies /\ nextLink # NoLink) =>
        \A m \in linkList : ~ (m.distance < nextLink.distance)

C25_NextNotSmaller ==
    (clusterAlg \in LinkPolicies /\ nextLink # NoLink /\ nextLink' # nextLink) =>
        ~ (nextLink'.distance < nextLink.distance)

C25_NonDecreasingOrder == [] C25_NoSmallerLinkLeft /\ [][C25_NextNotSmaller]_vars

\* the link inserted last is decided while the link inserted first, at a
\* strictly larger distance, is still in the queue
C25_Witness ==
    /\ clusterAlg \in LinkPolicies
    /\ totalNodes = 3
    /\ nextLink = Link(1, 2, normScores[1][2])
    /\ Link(0, 1, normScores[0][1]) \in linkList
    /\ Link(0, 2, normScores[0][2]) \in linkList
    /\ normScores[1][2] < normScores[0][2]
    /\ normScores[0][2] < normScores[0][1]

(***************************************************************************)
(* C26: after calcCentroid has run on an active cluster produced by any     *)
(* policy, a k-medoid cluster whose member list was replaced included, the  *)
(* centroid is a current member of the cluster, it is the first member in   *)
(* list order that minimizes the maximum distance to the members, and       *)
(* radius is that centroid's maximum distance to a member                   *)
(***************************************************************************)
\* the largest value of a non-empty set of distances
Max_Over(S) == CHOOSE v \in S : \A w \in S : w <= v

\* the maximum distance of element e to the members of cluster x
RowMax(x, e) == Max_Over({normScores[e][f] : f \in MemberSet(x)})

\* position y of the member list of x holds the first minimax member
FirstMinimax(x, y) ==
    LET ms == clusterList[x].members
    IN  /\ \A z \in 1 .. Len(ms) : RowMax(x, ms[y]) <= RowMax(x, ms[z])
        /\ \A z \in 1 .. (y - 1) : RowMax(x, ms[z]) > RowMax(x, ms[y])

C26_CentroidIsFirstMinimax ==
    pc = "output" =>
        \A x \in ActiveClusters :
            /\ clusterList[x].centroid \in MemberSet(x)
            /\ \E y \in 1 .. Len(clusterList[x].members) :
                  /\ FirstMinimax(x, y)
                  /\ clusterList[x].centroid = clusterList[x].members[y]
            /\ clusterList[x].radius = RowMax(x, clusterList[x].centroid)

(***************************************************************************)
(* C27: in every policy the master cluster list only grows by appending,    *)
(* the clusters already listed keeping their places, and for N elements it  *)
(* never holds more than 2N-1 clusters                                      *)
(***************************************************************************)
C27_AtMostTwoNMinusOne == Len(clusterList) <= 2 * totalNodes - 1

C27_Appended ==
    /\ Len(clusterList') >= Len(clusterList)
    /\ Len(clusterList') > Len(clusterList) =>
          \A x \in 1 .. Len(clusterList) :
              /\ clusterList'[x].id = clusterList[x].id
              /\ clusterList'[x].members = clusterList[x].members

C27_AppendOnlyBounded == [] C27_AtMostTwoNMinusOne /\ [][C27_Appended]_vars

(***************************************************************************)
(* C28: in a run of any policy the toggle setStatus is applied to a cluster *)
(* at most once: a cluster that is inactive never becomes active again, and *)
(* a cluster that a step supersedes is inactive after the step, not toggled *)
(* back by a second call                                                    *)
(***************************************************************************)
\* the places the clusters move up in a step: doKMeans inserts its roster
\* clusters in front of the list
MovedUp == IF clusterAlg = "KMEANS" THEN Len(clusterList') - Len(clusterList) ELSE 0

C28_StaysInactive ==
    \A x \in 1 .. Len(clusterList) :
        ~ clusterList[x].active => ~ clusterList'[x + MovedUp].active

\* the clusters a step calls setStatus on: the owners that elements leave
\* in a merge or a SPICKER iteration, every initial cluster when doKMeans starts
C28_SupersededInactive ==
    /\ clusterAlg # "KMEANS" =>
          \A e \in AllNodes :
              nodeList'[e] # nodeList[e] => ~ clusterList'[nodeList[e] + 1].active
    /\ (clusterAlg = "KMEANS" /\ pc = "start") =>
          \A x \in 1 .. Len(clusterList) : ~ clusterList'[x + MovedUp].active

C28_ToggledAtMostOnce == [][C28_StaysInactive /\ C28_SupersededInactive]_vars

\* a cluster created by a merge and superseded by a later merge, next to
\* the three superseded initial clusters
C28_Witness ==
    /\ totalNodes = 3
    /\ Len(clusterList) = 5
    /\ \A x \in 1 .. 4 : ~ clusterList[x].active
    /\ clusterList[5].active
    /\ clusterList[4].members # <<>>

(***************************************************************************)
(* C29: the cutoff-gated loops of doHierarchicalCutoff,                     *)
(* doStrictHierarchicalCutoff and doUPGMA never read or pop the top of an   *)
(* empty link queue, for N = 1 in particular, where initLinks generates no  *)
(* link, and every link that was generated is popped before they finish     *)
(***************************************************************************)
CutoffPolicies == {"HIERARCHICAL_CUTOFF", "STRICT", "UPGMA"}

C29_NoTopOfEmptyQueue ==
    clusterAlg \in CutoffPolicies =>
        /\ pc # "crash"
        /\ pc = "done" => linkList = {}

(***************************************************************************)
(* C30: when doStrictHierarchicalCutoff has finished the partition is       *)
(* maximal: there are no two distinct active clusters A and B such that     *)
(* every pair (a in A, b in B) is at a distance strictly below the cutoff   *)
(***************************************************************************)
C30_StrictPartitionMaximal ==
    (clusterAlg = "STRICT" /\ pc = "done") =>
        \A x, y \in ActiveClusters :
            x # y => ~ AllPairsBelow(MemberSet(x), MemberSet(y))

====
